---- MODULE Spec2Model ----
(***************************************************************************)
(* Model of the CDA certificate generator's identity-resolution and        *)
(* portal-access subsystem: src/server.js (HTTP handlers), src/db-index.js *)
(* (PostgreSQL queries) and src/email.js (delivery).                       *)
(*                                                                         *)
(* Every awaited database statement is one atomic step; the synchronous    *)
(* JavaScript between two awaits belongs to the step of the statement that *)
(* follows it.  Strings are tuples of one-character strings, so that       *)
(* toLowerCase, trim, includes and split are computed, not assumed.        *)
(***************************************************************************)
EXTENDS Integers, Sequences, FiniteSets, TLC

\* ------------------------------------------------------------------ bounds
NumProcs == 2          \* request slots that may be in flight at once
MaxTokens == 2         \* token generations in one run
MaxTicks == 2          \* clock ticks in one run

Procs == 1..NumProcs

\* ------------------------------------------------------------------- time
\* One tick of the model clock, in milliseconds (a quarter of an hour).
TickMs == 15 * 60 * 1000
\* db-index.js:265  new Date(Date.now() + 30 * 60 * 1000)
TokenTTL == 30 * 60 * 1000

\* ---------------------------------------------------------------- strings
NullStr == <<"NULL">>            \* SQL NULL / JS null of a nullable text value
EmptyStr == <<>>

LowerChar(c) ==
    CASE c = "A" -> "a" [] c = "B" -> "b" [] c = "C" -> "c" [] c = "D" -> "d"
      [] c = "J" -> "j" [] c = "L" -> "l" [] c = "O" -> "o" [] c = "X" -> "x"
      [] c = "Z" -> "z" [] OTHER -> c

\* String.prototype.toLowerCase / SQL LOWER()
ToLowerCase(s) == [i \in 1..Len(s) |-> LowerChar(s[i])]

RECURSIVE TrimStart(_)
TrimStart(s) == IF s # <<>> /\ Head(s) = " " THEN TrimStart(Tail(s)) ELSE s

RECURSIVE TrimEnd(_)
TrimEnd(s) ==
    IF s # <<>> /\ s[Len(s)] = " " THEN TrimEnd(SubSeq(s, 1, Len(s) - 1)) ELSE s

\* String.prototype.trim
Trim(s) == TrimEnd(TrimStart(s))

\* The decimal digits, by value.
Digits == <<"1", "2", "3", "4", "5", "6", "7", "8", "9">>

\* String.prototype.includes
Includes(s, sub) ==
    \E i \in 0..(Len(s) - Len(sub)) : SubSeq(s, i + 1, i + Len(sub)) = sub

\* s.split(' ')[0]
RECURSIVE FirstToken(_)
FirstToken(s) ==
    IF s = <<>> \/ Head(s) = " " THEN <<>> ELSE <<Head(s)>> \o FirstToken(Tail(s))

\* The characters of the model in code-unit order, for the default Array.prototype.sort.
Alphabet ==
    <<
       " ", "(", ")", "+", "-", "0", "1", "2", "3", "4", "5", "6", "7",
       "8", "9", ":", "@", "A", "B", "C", "D", "E", "F", "G", "H", "I",
       "J", "K", "L", "M", "N", "O", "P", "Q", "R", "S", "T", "U", "V",
       "W", "X", "Y", "Z", "a", "b", "c", "d", "e", "f", "g", "h", "i",
       "j", "k", "l", "m", "n", "o", "p", "q", "r", "s", "t", "u", "v",
       "w", "x", "y", "z", "|" >>

CharCode(c) == CHOOSE i \in DOMAIN Alphabet : Alphabet[i] = c

\* a < b as JavaScript compares strings: by code unit, a proper prefix first
RECURSIVE StrLess(_, _)
StrLess(a, b) ==
    IF b = <<>> THEN FALSE
    ELSE IF a = <<>> THEN TRUE
    ELSE IF Head(a) = Head(b) THEN StrLess(Tail(a), Tail(b))
    ELSE CharCode(Head(a)) < CharCode(Head(b))

RECURSIVE InsertSorted(_, _)
InsertSorted(x, list) ==
    IF list = <<>> THEN <<x>>
    ELSE IF StrLess(Head(list), x) \/ Head(list) = x
         THEN <<Head(list)>> \o InsertSorted(x, Tail(list))
         ELSE <<x>> \o list

\* Array.prototype.sort() without a comparator, on strings
RECURSIVE SortStrings(_)
SortStrings(list) ==
    IF list = <<>> THEN <<>> ELSE InsertSorted(Head(list), SortStrings(Tail(list)))

\* Array.prototype.join('|')
RECURSIVE JoinBar(_)
JoinBar(list) ==
    IF list = <<>> THEN <<>>
    ELSE IF Len(list) = 1 THEN Head(list)
    ELSE Head(list) \o <<"|">> \o JoinBar(Tail(list))

\* `value || null` on a text field: the empty string and null both become null
OrNull(v) == IF v = EmptyStr \/ v = NullStr THEN NullStr ELSE v

\* COALESCE(a, b)
Coalesce(a, b) == IF a # NullStr THEN a ELSE b

VARIABLES
    now,             \* the clock, in milliseconds
    students,        \* table students: set of rows
    magic_tokens,    \* table magic_tokens: sequence of rows, id = position
    nextToken,       \* source of fresh token strings (crypto.randomBytes)
    pc,              \* per request slot: the statement it is about to run
    loc,             \* per request slot: the handler's locals; when idle, its last outcome
    okCount,         \* history: per token, verifyMagicToken calls that returned the row
    prior,           \* history: per token, tokens of its email stored when its issuance began
    certificates,    \* table certificates: set of rows
    generated_packages,          \* table generated_packages: set of rows
    seq,             \* the SERIAL sequences: last value handed out, per table
    students_name_path_unique    \* whether the UNIQUE (name, path) constraint exists

authVars == <<magic_tokens, nextToken, okCount, prior>>
storeVars == <<certificates, generated_packages, seq, students_name_path_unique>>
vars == <<now, students, magic_tokens, nextToken, pc, loc, okCount, prior,
          certificates, generated_packages, seq, students_name_path_unique>>

\* ------------------------------------------------------------- responses
\* An HTTP response: status, the error text of the JSON body ("" if none), the
\* ok flag, and the payload fields of the success bodies.
Response(status, error, ok, email, studentIds, bytes) ==
    [status |-> status, error |-> error, ok |-> ok, email |-> email,
     students |-> studentIds, bytes |-> bytes]

\* no document bytes: SQL NULL in pdf_data, and a response that carries no document
NoBytes == <<-1>>
ErrorResponse(status, error) == Response(status, error, FALSE, NullStr, {}, NoBytes)
\* res.json({ ok: true })
Acknowledgement == Response(200, "", TRUE, NullStr, {}, NoBytes)
\* server.js:106-109  the answer when the email resolves to no student
UnknownEmailResponse == Acknowledgement
NameMismatchResponse_Reveals == ErrorResponse(403, "Name does not match our records.")
\* server.js:117-120  the answer when no resolved record matches the name
NameMismatchResponse == Acknowledgement
\* server.js:125  the answer after the token was stored and handed to delivery
IssuedResponse == Acknowledgement
\* server.js:136  the 401 of a token that verifyMagicToken rejects
AuthFailure == ErrorResponse(401, "Link expired or already used.")
VerifyFailureResponse_Reveals(reason) ==
    IF reason = "expired" THEN ErrorResponse(401, "Link expired.") ELSE AuthFailure
\* server.js:135-136  `if (!row)`: the handler sees null, whatever the reason was
VerifyFailureResponse(reason) == AuthFailure

\* What a slot holds while idle: the outcome of the request it answered last.
Outcome(op, path, resp) == [op |-> op, path |-> path, resp |-> resp]
NoOutcome == Outcome("none", "none", ErrorResponse(0, ""))

\* ------------------------------------------------------ StudentRegistry
StudentRow(id, name, email, center, path, label, count, created, updated) ==
    [id |-> id, name |-> name, email |-> email, center |-> center, path |-> path,
     path_label |-> label, course_count |-> count, created_at |-> created,
     updated_at |-> updated]

findStudentsByEmail_All(tbl, email) == tbl
findStudentsByEmail_CaseSensitive(tbl, email) == {s \in tbl : s.email = email}

\* db-index.js:296-310  WHERE LOWER(s.email) = LOWER($1); a NULL email matches nothing
findStudentsByEmail(tbl, email) ==
    {s \in tbl : s.email # NullStr /\ ToLowerCase(s.email) = ToLowerCase(email)}

\* ORDER BY s.path ASC: 'inf' sorts before 'pre'
PathRank(path) == IF path = "inf" THEN 1 ELSE 2

\* students[0] of the ordered result (rows of equal path come in either order)
FirstByPath(rows) == {s \in rows : \A r \in rows : PathRank(s.path) <= PathRank(r.path)}

NameMatches_Any(rows, name) == TRUE

\* server.js:112-116  the loose name match
NameMatches(rows, name) ==
    LET nameLower == Trim(ToLowerCase(name))
    IN  \E s \in rows :
            \/ Includes(ToLowerCase(s.name), nameLower)
            \/ Includes(nameLower, FirstToken(ToLowerCase(s.name)))

\* ----------------------------------------------------- AuthTokenService
\* (created_at is written by the store and read by no statement; it is left out)
TokenRow(id, email, token, expires, used) ==
    [id |-> id, email |-> email, token |-> token, expires_at |-> expires, used |-> used]

InvalidateTokens_Skipped(tbl, email) == tbl
\* db-index.js:268-271  UPDATE magic_tokens SET used = TRUE WHERE email = $1 AND used = FALSE
InvalidateTokens(tbl, email) ==
    [i \in DOMAIN tbl |->
        IF tbl[i].email = email /\ ~tbl[i].used THEN [tbl[i] EXCEPT !.used = TRUE]
        ELSE tbl[i]]

\* db-index.js:273-276  INSERT INTO magic_tokens (email, token, expires_at)
InsertToken(tbl, email, token, expires) ==
    Append(tbl, TokenRow(Len(tbl) + 1, email, token, expires, FALSE))

SelectValidToken_Inclusive(tbl, token, t) ==
    {i \in DOMAIN tbl : tbl[i].token = token /\ ~tbl[i].used /\ tbl[i].expires_at >= t}
\* db-index.js:281-285  SELECT * FROM magic_tokens
\*                      WHERE token = $1 AND used = FALSE AND expires_at > NOW()
SelectValidToken(tbl, token, t) ==
    {i \in DOMAIN tbl : tbl[i].token = token /\ ~tbl[i].used /\ tbl[i].expires_at > t}

MarkTokenUsed_Skipped(tbl, id) == tbl
MarkTokenUsed_Toggled(tbl, id) == [tbl EXCEPT ![id].used = ~@]
\* db-index.js:289-292  UPDATE magic_tokens SET used = TRUE WHERE id = $1
MarkTokenUsed(tbl, id) == [tbl EXCEPT ![id].used = TRUE]

\* Which of the three failure cases a rejected token is in (never sent to the caller).
FailureCase(tbl, token, t) ==
    IF ~\E i \in DOMAIN tbl : tbl[i].token = token THEN "nonexistent"
    ELSE IF \E i \in DOMAIN tbl : tbl[i].token = token /\ tbl[i].used THEN "used"
    ELSE "expired"

TokenStrings == 1..MaxTokens
IssuancesStarted == (nextToken - 1) + Cardinality({q \in Procs : pc[q] = "invalidate"})

\* ------------------------------------------------------------- inputs
\* What a caller may type into the portal form.
FormInputs ==
    { [name |-> <<>>,                             email |-> <<"a", "@", "x">>],
      [name |-> <<"j", "o">>,                     email |-> <<>>],
      [name |-> <<"j", "o">>,                     email |-> <<"c", "@", "x">>],
      [name |-> <<"A", "l">>,                     email |-> <<"A", "@", "x">>],
      [name |-> <<"j", "o">>,                     email |-> <<" ", "A", "@", "x", " ">>],
      [name |-> <<"J", "O", " ", "D", "-", "L">>, email |-> <<"a", "@", "X">>],
      [name |-> <<" ">>,                          email |-> <<"a", "@", "x">>],
      [name |-> <<"a", "l">>,                     email |-> <<"b", "@", "x">>],
      [name |-> <<"z">>,                          email |-> <<"b", "@", "x">>] }

\* The enrolment the portal runs against: Jo Doe under both curricula with one
\* email, Al under another email, and a record without an email.
EnrolledStudents ==
    { StudentRow(1, <<"J", "o", " ", "D", "o", "e">>, <<"a", "@", "X">>, NullStr,
                 "pre", "Preschool", 1, 0, 0),
      StudentRow(2, <<"J", "o", " ", "D", "o", "e">>, <<"a", "@", "X">>, NullStr,
                 "inf", "Infant", 1, 0, 0),
      StudentRow(3, <<"A", "l">>, <<"B", "@", "x">>, NullStr, "pre", "Preschool", 1, 0, 0),
      StudentRow(4, <<"z">>, NullStr, NullStr, "pre", "Preschool", 1, 0, 0) }

\* ------------------------------------------- POST /api/auth/request
\* server.js:97-120  validation, findStudentsByEmail and the name gate
AuthRequest(p, name, email) ==
    /\ pc[p] = "idle"
    /\ IF name = EmptyStr \/ email = EmptyStr
       THEN /\ loc' = [loc EXCEPT ![p] = Outcome("request", "missing",
                          ErrorResponse(400, "Name and email required"))]
            /\ pc' = pc
       ELSE LET emailLower == Trim(ToLowerCase(email))
                rows == findStudentsByEmail(students, emailLower)
            IN  IF rows = {}
                THEN /\ loc' = [loc EXCEPT ![p] =
                                   Outcome("request", "unknown", UnknownEmailResponse)]
                     /\ pc' = pc
                ELSE IF ~NameMatches(rows, name)
                THEN /\ loc' = [loc EXCEPT ![p] =
                                   Outcome("request", "mismatch", NameMismatchResponse)]
                     /\ pc' = pc
                ELSE /\ IssuancesStarted < MaxTokens
                     /\ \E first \in FirstByPath(rows) :
                            loc' = [loc EXCEPT ![p] =
                                       [email |-> emailLower, name |-> first.name]]
                     /\ pc' = [pc EXCEPT ![p] = "invalidate"]
    /\ UNCHANGED <<now, students, magic_tokens, nextToken, okCount, prior>>
    /\ UNCHANGED storeVars

\* db-index.js:262-271  createMagicToken: fresh token, expiry, then the invalidating UPDATE
createMagicToken_Invalidate(p) ==
    /\ pc[p] = "invalidate"
    /\ LET email == ToLowerCase(loc[p].email)
           token == nextToken
       IN  /\ magic_tokens' = InvalidateTokens(magic_tokens, email)
           /\ nextToken' = nextToken + 1
           /\ loc' = [loc EXCEPT ![p] = [email |-> email, name |-> loc[p].name,
                                         token |-> token, expires |-> now + TokenTTL]]
           /\ prior' = [prior EXCEPT ![token] =
                  {magic_tokens[i].token : i \in {j \in DOMAIN magic_tokens :
                                                     magic_tokens[j].email = email}}]
    /\ pc' = [pc EXCEPT ![p] = "tokeninsert"]
    /\ UNCHANGED <<now, students, okCount>>
    /\ UNCHANGED storeVars

\* db-index.js:273-277  the INSERT; createMagicToken returns the token
createMagicToken_Insert(p) ==
    /\ pc[p] = "tokeninsert"
    /\ magic_tokens' = InsertToken(magic_tokens, loc[p].email, loc[p].token,
                                   loc[p].expires)
    /\ pc' = [pc EXCEPT ![p] = "send"]
    /\ UNCHANGED <<now, students, nextToken, loc, okCount, prior>>
    /\ UNCHANGED storeVars

\* server.js:126-129  what the handler answers when createMagicToken or sendMagicLink throws
RequestFailure == ErrorResponse(500, "Failed to send link. Please try again.")

\* server.js:122,126-129  the INSERT is rejected by the store: createMagicToken throws
createMagicToken_Fail(p) ==
    /\ pc[p] = "tokeninsert"
    /\ loc' = [loc EXCEPT ![p] =
                  Outcome("request", "storefail", RequestFailure)]
    /\ pc' = [pc EXCEPT ![p] = "idle"]
    /\ UNCHANGED <<now, students, magic_tokens, nextToken, okCount, prior>>
    /\ UNCHANGED storeVars

\* email.js:6-99, server.js:123-125  the delivery collaborator accepts the message
sendMagicLink(p) ==
    /\ pc[p] = "send"
    /\ loc' = [loc EXCEPT ![p] =
                  Outcome("request", "issued", IssuedResponse)]
    /\ pc' = [pc EXCEPT ![p] = "idle"]
    /\ UNCHANGED <<now, students, magic_tokens, nextToken, okCount, prior>>
    /\ UNCHANGED storeVars

\* email.js:7,91-96, server.js:126-129  no API key, or SendGrid answers not-ok: it throws
sendMagicLink_Fail(p) ==
    /\ pc[p] = "send"
    /\ loc' = [loc EXCEPT ![p] =
                  Outcome("request", "sendfail", RequestFailure)]
    /\ pc' = [pc EXCEPT ![p] = "idle"]
    /\ UNCHANGED <<now, students, magic_tokens, nextToken, okCount, prior>>
    /\ UNCHANGED storeVars

\* ------------------------------------- GET /api/auth/verify/:token
\* db-index.js:280-286, server.js:133-136  the SELECT; no row is the 401
verifyMagicToken_Select(p, token) ==
    /\ pc[p] = "idle"
    /\ LET found == SelectValidToken(magic_tokens, token, now)
       IN  IF found = {}
           THEN /\ loc' = [loc EXCEPT ![p] =
                       LET reason == FailureCase(magic_tokens, token, now)
                       IN  Outcome("verify", reason, VerifyFailureResponse(reason))]
                /\ pc' = pc
           ELSE /\ \E i \in found :
                       loc' = [loc EXCEPT ![p] = [row |-> magic_tokens[i], token |-> token]]
                /\ pc' = [pc EXCEPT ![p] = "vupdate"]
    /\ UNCHANGED <<now, students, magic_tokens, nextToken, okCount, prior>>
    /\ UNCHANGED storeVars

\* db-index.js:288-293  the UPDATE; verifyMagicToken returns the row
verifyMagicToken_Update(p) ==
    /\ pc[p] = "vupdate"
    /\ magic_tokens' = MarkTokenUsed(magic_tokens, loc[p].row.id)
    /\ okCount' = [okCount EXCEPT ![loc[p].token] = @ + 1]
    /\ pc' = [pc EXCEPT ![p] = "vfind"]
    /\ UNCHANGED <<now, students, nextToken, loc, prior>>
    /\ UNCHANGED storeVars

\* server.js:138-147  findStudentsByEmail(row.email) and the answer
VerifyRespond(p) ==
    /\ pc[p] = "vfind"
    /\ LET rows == findStudentsByEmail(students, loc[p].row.email)
       IN  loc' = [loc EXCEPT ![p] =
              IF rows = {}
              THEN Outcome("verify", "norecords", ErrorResponse(404, "No records found."))
              ELSE Outcome("verify", "ok",
                           Response(200, "", TRUE, loc[p].row.email,
                                    {s.id : s \in rows}, NoBytes))]
    /\ pc' = [pc EXCEPT ![p] = "idle"]
    /\ UNCHANGED <<now, students, magic_tokens, nextToken, okCount, prior>>
    /\ UNCHANGED storeVars

\* Time passes.
Tick ==
    /\ now < MaxTicks * TickMs
    /\ now' = now + TickMs
    /\ UNCHANGED <<students, magic_tokens, nextToken, pc, loc, okCount, prior>>
    /\ UNCHANGED storeVars

\* ------------------------------------------------- the portal-access run
AuthInit ==
    /\ now = 0
    /\ students = EnrolledStudents
    /\ magic_tokens = <<>>
    /\ nextToken = 1
    /\ pc = [p \in Procs |-> "idle"]
    /\ loc = [p \in Procs |-> NoOutcome]
    /\ okCount = [t \in TokenStrings |-> 0]
    /\ prior = [t \in TokenStrings |-> {}]
    /\ certificates = {}
    /\ generated_packages = {}
    /\ seq = [students |-> 0, certificates |-> 0, generated_packages |-> 0]
    /\ students_name_path_unique = TRUE

AuthNext ==
    \/ \E p \in Procs, form \in FormInputs : AuthRequest(p, form.name, form.email)
    \/ \E p \in Procs : createMagicToken_Invalidate(p)
    \/ \E p \in Procs : createMagicToken_Insert(p)
    \/ \E p \in Procs : createMagicToken_Fail(p)
    \/ \E p \in Procs : sendMagicLink(p)
    \/ \E p \in Procs : sendMagicLink_Fail(p)
    \/ \E p \in Procs, token \in TokenStrings : verifyMagicToken_Select(p, token)
    \/ \E p \in Procs : verifyMagicToken_Update(p)
    \/ \E p \in Procs : VerifyRespond(p)
    \/ Tick

SpecAuth == AuthInit /\ [][AuthNext]_vars

\* The request-access endpoint alone: concurrent calls of POST /api/auth/request
\* and the clock.
RequestNext ==
    \/ \E p \in Procs, form \in FormInputs : AuthRequest(p, form.name, form.email)
    \/ \E p \in Procs : createMagicToken_Invalidate(p)
    \/ \E p \in Procs : createMagicToken_Insert(p)
    \/ \E p \in Procs : createMagicToken_Fail(p)
    \/ \E p \in Procs : sendMagicLink(p)
    \/ \E p \in Procs : sendMagicLink_Fail(p)
    \/ Tick

SpecRequest == AuthInit /\ [][RequestNext]_vars

\* ------------------------------------------------------- submissions
MaxSubmissions == 2    \* generation requests in one run

\* The DATE values of the model, as PostgreSQL prints them.
Date1 == <<"2", "0", "2", "4", "-", "0", "1", "-", "1", "0">>
Date2 == <<"2", "0", "2", "4", "-", "0", "2", "-", "0", "5">>

\* db-index.js:191  r.cert_date in a string concatenation: node-postgres hands a DATE
\* column back as a JavaScript Date, and `+` renders it with Date.prototype.toString.
JSDateString(date) ==
    IF date = Date1
    THEN <<"W", "e", "d", " ", "J", "a", "n", " ", "1", "0", " ", "2", "0", "2", "4", " ", "0", "0", ":", "0", "0", ":", "0", "0", " ", "G", "M", "T", "+", "0", "0", "0", "0", " ", "(", "C", "o", "o", "r", "d", "i", "n", "a", "t", "e", "d", " ", "U", "n", "i", "v", "e", "r", "s", "a", "l", " ", "T", "i", "m", "e", ")">>
    ELSE <<"M", "o", "n", " ", "F", "e", "b", " ", "0", "5", " ", "2", "0", "2", "4", " ", "0", "0", ":", "0", "0", ":", "0", "0", " ", "G", "M", "T", "+", "0", "0", "0", "0", " ", "(", "C", "o", "o", "r", "d", "i", "n", "a", "t", "e", "d", " ", "U", "n", "i", "v", "e", "r", "s", "a", "l", " ", "T", "i", "m", "e", ")">>

\* db-index.js:205-207  Buffer.from(data.pdfBase64, 'base64'), or null
DecodePdf(pdfBase64) ==
    IF pdfBase64 = EmptyStr THEN NoBytes
    ELSE IF pdfBase64 = <<"Q", "Q", "=", "=">> THEN <<65>>
    ELSE <<66>>

Course(course, area, date, status, areaIndex) ==
    [course |-> course, area |-> area, date |-> date, status |-> status,
     areaIndex |-> areaIndex]

Pass == <<"P", "a", "s", "s">>
CourseCPR == Course(<<"C", "P", "R">>, <<"H">>, Date1, Pass, 1)
CourseFA == Course(<<"F", "A">>, <<"S">>, Date2, Pass, 2)
\* A course entry whose course, date and status are empty strings.
CourseBlank == Course(EmptyStr, <<"H">>, EmptyStr, EmptyStr, 1)

Payload(name, email, center, path, label, courses, filename, pdfBase64) ==
    [name |-> name, email |-> email, center |-> center, path |-> path,
     pathLabel |-> label, courses |-> courses, filename |-> filename,
     generatedBy |-> EmptyStr, pdfBase64 |-> pdfBase64]

JoDoe == <<"J", "o", " ", "D", "o", "e">>

\* The request bodies an administrator may post.
SubmitInputs ==
    { Payload(JoDoe, <<"a", "@", "X">>, <<"N">>, "pre", "Preschool",
              <<CourseCPR>>, <<"1">>, <<"Q", "Q", "=", "=">>),
      Payload(JoDoe, EmptyStr, EmptyStr, "pre", "Preschool",
              <<CourseFA, CourseCPR>>, <<"2">>, EmptyStr),
      Payload(JoDoe, <<"b", "@", "x">>, EmptyStr, "pre", "PreK",
              <<CourseCPR>>, <<"3">>, <<"Q", "g", "=", "=">>),
      Payload(<<"A", "l">>, <<"B", "@", "x">>, EmptyStr, "inf", "Infant",
              <<>>, <<"4">>, <<"Q", "g", "=", "=">>),
      Payload(<<"A", "l">>, EmptyStr, EmptyStr, "inf", "Infant",
              <<CourseBlank>>, <<"5">>, EmptyStr) }

CertificateRow(id, studentId, c) ==
    [id |-> id, student_id |-> studentId, course_name |-> c.course,
     subject_area |-> c.area, cert_date |-> c.date, status |-> c.status,
     area_index |-> c.areaIndex]

\* (generated_at is written by the store and read only by listings; it is left out)
PackageRow(id, studentId, filename, path, generatedBy, pdf) ==
    [id |-> id, student_id |-> studentId, filename |-> filename, path |-> path,
     generated_by |-> generatedBy, pdf_data |-> pdf]

\* The statements of saveStudentPackage run in one transaction: what it wrote is
\* staged in the slot's locals and reaches the tables at COMMIT.
HoldsRow(q) == pc[q] \in {"reconcile", "delete", "insert", "append", "commit"}
\* db-index.js:162-215  between BEGIN and COMMIT
InTransaction(q) == pc[q] = "upsert" \/ HoldsRow(q)

RowLockFree_Unchecked(p, name, path) == TRUE
\* db-index.js:166-168  the unique index on (name, path): an INSERT whose key another
\* open transaction has written waits until that transaction ends
RowLockFree(p, name, path) ==
    \A q \in Procs \ {p} :
        HoldsRow(q) => ~(loc[q].data.name = name /\ loc[q].data.path = path)

ConflictingRows_None(tbl, name, path) == {}
\* db-index.js:168  ON CONFLICT ON CONSTRAINT students_name_path_unique: the committed
\* row of the same (name, path)
ConflictingRows(tbl, name, path) == {s \in tbl : s.name = name /\ s.path = path}

UpdatedStudent_Overwritten(old, data, t) ==
    [old EXCEPT !.updated_at = t,
                !.course_count = Len(data.courses),
                !.email = OrNull(data.email),
                !.center = OrNull(data.center)]

\* db-index.js:169-173  DO UPDATE SET ...
UpdatedStudent(old, data, t) ==
    [old EXCEPT !.updated_at = t,
                !.course_count = Len(data.courses),
                !.email = Coalesce(OrNull(data.email), old.email),
                !.center = Coalesce(OrNull(data.center), old.center)]

\* db-index.js:166-167,175-182  the row INSERT writes when nothing conflicts
InsertedStudent(id, data, t) ==
    StudentRow(id, data.name, OrNull(data.email), OrNull(data.center), data.path,
               data.pathLabel, Len(data.courses), t, t)

\* Submissions that have begun: the upserts run and the requests waiting to run theirs.
SubmissionsStarted == seq.students + Cardinality({q \in Procs : pc[q] = "upsert"})

\* server.js:58-60, db-index.js:159-162  the request arrives: pool.connect() and BEGIN
saveStudentPackage_Begin(p, data) ==
    /\ pc[p] = "idle"
    /\ SubmissionsStarted < MaxSubmissions
    /\ loc' = [loc EXCEPT ![p] = [data |-> data]]
    /\ pc' = [pc EXCEPT ![p] = "upsert"]
    /\ UNCHANGED <<now, students, certificates, generated_packages, seq,
                   students_name_path_unique>>
    /\ UNCHANGED authVars

\* db-index.js:164-184  the upsert, which waits while another open transaction has
\* written the same (name, path); RETURNING id
saveStudentPackage_Upsert(p) ==
    /\ pc[p] = "upsert"
    /\ students_name_path_unique
    /\ RowLockFree(p, loc[p].data.name, loc[p].data.path)
    /\ LET data == loc[p].data
           hit == ConflictingRows(students, data.name, data.path)
           id == seq.students + 1
       IN  \/ /\ hit = {}
              /\ loc' = [loc EXCEPT ![p] =
                            [data |-> data, studentId |-> id,
                             student |-> InsertedStudent(id, data, now)]]
           \/ \E old \in hit :
                 loc' = [loc EXCEPT ![p] =
                            [data |-> data, studentId |-> old.id,
                             student |-> UpdatedStudent(old, data, now)]]
    /\ seq' = [seq EXCEPT !.students = @ + 1]
    /\ pc' = [pc EXCEPT ![p] = "reconcile"]
    /\ UNCHANGED <<now, students, certificates, generated_packages,
                   students_name_path_unique>>
    /\ UNCHANGED authVars

RECURSIVE SetToSeq(_)
SetToSeq(set) ==
    IF set = {} THEN <<>>
    ELSE LET x == CHOOSE y \in set : TRUE IN <<x>> \o SetToSeq(set \ {x})

\* db-index.js:187-191  the signature of the stored rows
ExistingKey(rows) ==
    LET list == SetToSeq(rows)
    IN  JoinBar(SortStrings([k \in 1..Len(list) |->
            list[k].course_name \o JSDateString(list[k].cert_date) \o list[k].status]))

\* db-index.js:192  the signature of the incoming list
IncomingKey(courses) ==
    JoinBar(SortStrings([k \in 1..Len(courses) |->
            courses[k].course \o courses[k].date \o courses[k].status]))

\* db-index.js:195  DELETE FROM certificates WHERE student_id = $1
DeleteCertificates(tbl, studentId) == {c \in tbl : c.student_id # studentId}

\* db-index.js:186-194  SELECT the stored rows and compare the signatures
saveStudentPackage_Reconcile(p) ==
    /\ pc[p] = "reconcile"
    /\ LET data == loc[p].data
           id == loc[p].studentId
           stored == {c \in certificates : c.student_id = id}
           replace == ExistingKey(stored) # IncomingKey(data.courses)
       IN  /\ loc' = [loc EXCEPT ![p] =
                  [data |-> data, studentId |-> id, student |-> loc[p].student,
                   replace |-> replace, deleted |-> FALSE, newCerts |-> {}]]
           /\ pc' = [pc EXCEPT ![p] = IF replace THEN "delete" ELSE "append"]
    /\ UNCHANGED <<now, students, certificates, generated_packages, seq,
                   students_name_path_unique>>
    /\ UNCHANGED authVars

\* db-index.js:195  the DELETE, inside the transaction
saveStudentPackage_Delete(p) ==
    /\ pc[p] = "delete"
    /\ loc' = [loc EXCEPT ![p].deleted = TRUE]
    /\ pc' = [pc EXCEPT ![p] = IF loc[p].data.courses = <<>> THEN "append" ELSE "insert"]
    /\ UNCHANGED <<now, students, certificates, generated_packages, seq,
                   students_name_path_unique>>
    /\ UNCHANGED authVars

\* db-index.js:196-201  one turn of the loop: the INSERT of the next course
saveStudentPackage_Insert(p) ==
    /\ pc[p] = "insert"
    /\ LET data == loc[p].data
           k == Cardinality(loc[p].newCerts) + 1
       IN  /\ loc' = [loc EXCEPT ![p].newCerts =
                  @ \cup {CertificateRow(seq.certificates + 1, loc[p].studentId,
                                         data.courses[k])}]
           /\ pc' = [pc EXCEPT ![p] = IF k = Len(data.courses) THEN "append" ELSE "insert"]
    /\ seq' = [seq EXCEPT !.certificates = @ + 1]
    /\ UNCHANGED <<now, students, certificates, generated_packages,
                   students_name_path_unique>>
    /\ UNCHANGED authVars

\* db-index.js:213  data.generatedBy || 'Admin'
GeneratedBy(data) ==
    IF data.generatedBy = EmptyStr THEN <<"A", "d", "m", "i", "n">> ELSE data.generatedBy

\* db-index.js:204-213  INSERT INTO generated_packages ... RETURNING id
saveStudentPackage_Append(p) ==
    /\ pc[p] = "append"
    /\ LET data == loc[p].data
       IN  loc' = [loc EXCEPT ![p] =
              [data |-> data, studentId |-> loc[p].studentId, student |-> loc[p].student,
               replace |-> loc[p].replace, deleted |-> loc[p].deleted,
               newCerts |-> loc[p].newCerts,
               pkg |-> PackageRow(seq.generated_packages + 1, loc[p].studentId,
                                  data.filename, data.path, GeneratedBy(data),
                                  DecodePdf(data.pdfBase64))]]
    /\ seq' = [seq EXCEPT !.generated_packages = @ + 1]
    /\ pc' = [pc EXCEPT ![p] = "commit"]
    /\ UNCHANGED <<now, students, certificates, generated_packages,
                   students_name_path_unique>>
    /\ UNCHANGED authVars

\* server.js:61  res.json({ success: true, studentId, packageId })
SaveResponse(studentId, packageId) ==
    [status |-> 200, error |-> "", ok |-> TRUE, email |-> NullStr,
     students |-> {studentId}, bytes |-> NoBytes, packageId |-> packageId]

\* db-index.js:215-216, server.js:60-61  COMMIT: the staged rows reach the tables
saveStudentPackage_Commit(p) ==
    /\ pc[p] = "commit"
    /\ LET id == loc[p].studentId
       IN  /\ students' = {s \in students : s.id # id} \cup {loc[p].student}
           /\ certificates' =
                  (IF loc[p].deleted THEN DeleteCertificates(certificates, id)
                   ELSE certificates) \cup loc[p].newCerts
           /\ generated_packages' = generated_packages \cup {loc[p].pkg}
           /\ loc' = [loc EXCEPT ![p] =
                  Outcome("save", "saved", SaveResponse(id, loc[p].pkg.id))]
    /\ pc' = [pc EXCEPT ![p] = "idle"]
    /\ UNCHANGED <<now, seq, students_name_path_unique>>
    /\ UNCHANGED authVars

\* The rows a transaction has written and not committed.
StagedStudents(p) == IF HoldsRow(p) THEN {loc[p].student} ELSE {}
StagedCertificates(p) ==
    IF pc[p] \in {"insert", "append", "commit"} THEN loc[p].newCerts ELSE {}
StagedPackages(p) == IF pc[p] = "commit" THEN {loc[p].pkg} ELSE {}

RolledBack_Kept(tbl, staged) == tbl \cup staged
\* db-index.js:218  ROLLBACK: of what the transaction wrote nothing reaches the table
RolledBack(tbl, staged) == tbl

\* db-index.js:217-219, server.js:62-64  a statement fails: ROLLBACK, and the 500
saveStudentPackage_Rollback(p) ==
    /\ InTransaction(p)
    /\ students' = RolledBack(students, StagedStudents(p))
    /\ certificates' = RolledBack(certificates, StagedCertificates(p))
    /\ generated_packages' = RolledBack(generated_packages, StagedPackages(p))
    /\ loc' = [loc EXCEPT ![p] =
                  Outcome("save", "rolledback", ErrorResponse(500, "e.message"))]
    /\ pc' = [pc EXCEPT ![p] = "idle"]
    /\ UNCHANGED <<now, seq, students_name_path_unique>>
    /\ UNCHANGED authVars

Cascade_None(tbl, ids) == tbl

\* db-index.js:25, 36  REFERENCES students(id) ON DELETE CASCADE: the rows of the
\* deleted students go with them
Cascade(tbl, ids) == {r \in tbl : r.student_id \notin ids}

\* db-index.js:225-227, 25, 36  DELETE FROM students WHERE id = $1, with ON DELETE
\* CASCADE; it waits for a transaction that holds the row
deleteStudent(id) ==
    /\ \E s \in students : s.id = id
    /\ \A q \in Procs : HoldsRow(q) => loc[q].studentId # id
    /\ students' = {s \in students : s.id # id}
    /\ certificates' = Cascade(certificates, {id})
    /\ generated_packages' = Cascade(generated_packages, {id})
    /\ UNCHANGED <<now, pc, loc, seq, students_name_path_unique>>
    /\ UNCHANGED authVars

\* What a caller may pass in the ids array: numerals, and a value that is no number.
RawIds == {<<Digits[i]>> : i \in 1..MaxSubmissions} \cup {<<"x">>}

\* db-index.js:235  parseInt(id, 10) and the isNaN filter: the integer of a numeral,
\* nothing for a value that parses to NaN
ParseInt(raw) == {n \in DOMAIN Digits : raw = <<Digits[n]>>}

\* db-index.js:232-243, 25, 36  DELETE FROM students WHERE id IN (...), with ON
\* DELETE CASCADE; an empty array or one without a number deletes nothing
deleteManyStudents(ids) ==
    LET clean == UNION {ParseInt(raw) : raw \in ids}
    IN  /\ clean # {}
        /\ \A q \in Procs : HoldsRow(q) => loc[q].studentId \notin clean
        /\ students' = {s \in students : s.id \notin clean}
        /\ certificates' = Cascade(certificates, clean)
        /\ generated_packages' = Cascade(generated_packages, clean)
        /\ UNCHANGED <<now, pc, loc, seq, students_name_path_unique>>
        /\ UNCHANGED authVars

\* ------------------------------------------- GET /api/students/:id
\* The rows a statement of another connection would read if it saw the work of an
\* open transaction on the student: the rows that transaction has inserted so far.
VisibleCertificates_Uncommitted(studentId) ==
    LET writers == {q \in Procs : /\ pc[q] \in {"insert", "append", "commit"}
                                  /\ loc[q].studentId = studentId
                                  /\ loc[q].deleted}
    IN  IF writers = {} THEN {c \in certificates : c.student_id = studentId}
        ELSE loc[CHOOSE q \in writers : TRUE].newCerts
\* db-index.js:132-139, 160-162  a SELECT on the pool runs on a connection of its
\* own, outside the transaction saveStudentPackage opened: it reads committed rows
VisibleCertificates(studentId) == {c \in certificates : c.student_id = studentId}

\* server.js:51  res.json({ ...student, certificates: certs, history })
StudentResponse(student, certs, history) ==
    [status |-> 200, error |-> "", ok |-> FALSE, email |-> student.email,
     students |-> {student.id}, bytes |-> NoBytes, certificates |-> certs,
     history |-> history]

\* server.js:45-48, db-index.js:127-130  getStudent, or the 404
StudentDetail(p, id) ==
    /\ pc[p] = "idle"
    /\ LET hit == {s \in students : s.id = id}
       IN  IF hit = {}
           THEN /\ loc' = [loc EXCEPT ![p] = Outcome("detail", "noStudent",
                              ErrorResponse(404, "Student not found"))]
                /\ pc' = pc
           ELSE /\ \E s \in hit : loc' = [loc EXCEPT ![p] = [student |-> s]]
                /\ pc' = [pc EXCEPT ![p] = "certs"]
    /\ UNCHANGED <<now, students>>
    /\ UNCHANGED storeVars
    /\ UNCHANGED authVars

\* server.js:49, db-index.js:132-139  SELECT * FROM certificates WHERE student_id = $1
getStudentCertificates(p) ==
    /\ pc[p] = "certs"
    /\ loc' = [loc EXCEPT ![p] = [student |-> loc[p].student,
                                  certs |-> VisibleCertificates(loc[p].student.id)]]
    /\ pc' = [pc EXCEPT ![p] = "history"]
    /\ UNCHANGED <<now, students>>
    /\ UNCHANGED storeVars
    /\ UNCHANGED authVars

\* server.js:50-51, db-index.js:141-149  getStudentHistory (the package rows without
\* their bytes), and the answer
getStudentHistory(p) ==
    /\ pc[p] = "history"
    /\ LET history == {g.id : g \in {h \in generated_packages :
                                        h.student_id = loc[p].student.id}}
       IN  loc' = [loc EXCEPT ![p] = Outcome("detail", "found",
                      StudentResponse(loc[p].student, loc[p].certs, history))]
    /\ pc' = [pc EXCEPT ![p] = "idle"]
    /\ UNCHANGED <<now, students>>
    /\ UNCHANGED storeVars
    /\ UNCHANGED authVars

\* ------------------------------------- GET /api/portal/pdf/:packageId
\* What a portal caller may put in the email query parameter.
DownloadEmails ==
    { <<>>, <<" ", "A", "@", "x">>, <<"b", "@", "X">>, <<"c", "@", "x">> }
PackageIds == 1..MaxSubmissions

\* server.js:161,171  the 403
Forbidden == ErrorResponse(403, "Forbidden")
\* server.js:167  the 404 of a package id that has no row
PackageNotFound == ErrorResponse(404, "Not found")

\* server.js:157-161  the email parameter and findStudentsByEmail
DownloadFind(p, email, packageId) ==
    /\ pc[p] = "idle"
    /\ LET emailLower == Trim(ToLowerCase(email))
           rows == findStudentsByEmail(students, emailLower)
       IN  IF emailLower = EmptyStr
           THEN /\ loc' = [loc EXCEPT ![p] = Outcome("download", "noEmail",
                              ErrorResponse(401, "Email required"))]
                /\ pc' = pc
           ELSE IF rows = {}
           THEN /\ loc' = [loc EXCEPT ![p] = Outcome("download", "unknownEmail", Forbidden)]
                /\ pc' = pc
           ELSE /\ loc' = [loc EXCEPT ![p] =
                              [email |-> emailLower, packageId |-> packageId,
                               studentIds |-> {r.id : r \in rows}]]
                /\ pc' = [pc EXCEPT ![p] = "dlowner"]
    /\ UNCHANGED <<now, students>>
    /\ UNCHANGED storeVars
    /\ UNCHANGED authVars

OwnerAllowed_Unchecked(studentIds, owner) == TRUE
\* server.js:169-170  studentIds.includes(ownerCheck.rows[0].student_id)
OwnerAllowed(studentIds, owner) == owner \in studentIds

\* server.js:163-172  the owner of the package, and the membership test
DownloadOwner(p) ==
    /\ pc[p] = "dlowner"
    /\ LET hit == {g \in generated_packages : g.id = loc[p].packageId}
       IN  IF hit = {}
           THEN /\ loc' = [loc EXCEPT ![p] =
                              Outcome("download", "noPackage", PackageNotFound)]
                /\ pc' = [pc EXCEPT ![p] = "idle"]
           ELSE \E g \in hit :
                   IF ~OwnerAllowed(loc[p].studentIds, g.student_id)
                   THEN /\ loc' = [loc EXCEPT ![p] =
                                      Outcome("download", "notOwner", Forbidden)]
                        /\ pc' = [pc EXCEPT ![p] = "idle"]
                   ELSE /\ loc' = loc
                        /\ pc' = [pc EXCEPT ![p] = "dlfetch"]
    /\ UNCHANGED <<now, students>>
    /\ UNCHANGED storeVars
    /\ UNCHANGED authVars

\* db-index.js:151-157  SELECT pdf_data, filename FROM generated_packages WHERE id = $1
getPackagePDF(tbl, packageId) == {g \in tbl : g.id = packageId}

\* server.js:174-179  getPackagePDF, then the bytes or the 404
DownloadFetch(p) ==
    /\ pc[p] = "dlfetch"
    /\ LET hit == getPackagePDF(generated_packages, loc[p].packageId)
       IN  IF hit = {} \/ (\A g \in hit : g.pdf_data = NoBytes)
           THEN loc' = [loc EXCEPT ![p] = Outcome("download", "noPdf",
                           ErrorResponse(404, "PDF not stored for this package"))]
           ELSE \E g \in hit :
                   loc' = [loc EXCEPT ![p] = Outcome("download", "released",
                              Response(200, "", FALSE, NullStr, {}, g.pdf_data))]
    /\ pc' = [pc EXCEPT ![p] = "idle"]
    /\ UNCHANGED <<now, students>>
    /\ UNCHANGED storeVars
    /\ UNCHANGED authVars

\* ------------------------------------- GET /api/packages/:packageId/pdf
\* server.js:187-198  getPackagePDF, then the bytes or the 404; the handler takes
\* no email and runs no owner check
AdminViewPDF(p, packageId) ==
    /\ pc[p] = "idle"
    /\ LET hit == getPackagePDF(generated_packages, packageId)
       IN  IF hit = {} \/ (\A g \in hit : g.pdf_data = NoBytes)
           THEN loc' = [loc EXCEPT ![p] = Outcome("view", "noPdf",
                           ErrorResponse(404, "PDF not stored"))]
           ELSE \E g \in hit :
                   loc' = [loc EXCEPT ![p] = Outcome("view", "released",
                              Response(200, "", FALSE, NullStr, {}, g.pdf_data))]
    /\ pc' = pc
    /\ UNCHANGED <<now, students>>
    /\ UNCHANGED storeVars
    /\ UNCHANGED authVars

\* ------------------------------------------- the generation and download run
StoreInit ==
    /\ now = 0
    /\ students = {}
    /\ certificates = {}
    /\ generated_packages = {}
    /\ seq = [students |-> 0, certificates |-> 0, generated_packages |-> 0]
    /\ students_name_path_unique = TRUE
    /\ magic_tokens = <<>>
    /\ nextToken = 1
    /\ pc = [p \in Procs |-> "idle"]
    /\ loc = [p \in Procs |-> NoOutcome]
    /\ okCount = [t \in TokenStrings |-> 0]
    /\ prior = [t \in TokenStrings |-> {}]

StoreNext ==
    \/ \E p \in Procs, data \in SubmitInputs : saveStudentPackage_Begin(p, data)
    \/ \E p \in Procs : saveStudentPackage_Upsert(p)
    \/ \E p \in Procs : saveStudentPackage_Reconcile(p)
    \/ \E p \in Procs : saveStudentPackage_Delete(p)
    \/ \E p \in Procs : saveStudentPackage_Insert(p)
    \/ \E p \in Procs : saveStudentPackage_Append(p)
    \/ \E p \in Procs : saveStudentPackage_Commit(p)
    \/ \E p \in Procs : saveStudentPackage_Rollback(p)
    \/ \E id \in 1..MaxSubmissions : deleteStudent(id)
    \/ \E ids \in SUBSET RawIds : deleteManyStudents(ids)
    \/ \E p \in Procs, email \in DownloadEmails, packageId \in PackageIds :
          DownloadFind(p, email, packageId)
    \/ \E p \in Procs : DownloadOwner(p)
    \/ \E p \in Procs : DownloadFetch(p)
    \/ \E p \in Procs, packageId \in PackageIds : AdminViewPDF(p, packageId)
    \/ Tick

SpecStore == StoreInit /\ [][StoreNext]_vars

\* ------------------------------------- the generation run with its readers
ReadNext ==
    \/ \E p \in Procs, data \in SubmitInputs : saveStudentPackage_Begin(p, data)
    \/ \E p \in Procs : saveStudentPackage_Upsert(p)
    \/ \E p \in Procs : saveStudentPackage_Reconcile(p)
    \/ \E p \in Procs : saveStudentPackage_Delete(p)
    \/ \E p \in Procs : saveStudentPackage_Insert(p)
    \/ \E p \in Procs : saveStudentPackage_Append(p)
    \/ \E p \in Procs : saveStudentPackage_Commit(p)
    \/ \E p \in Procs : saveStudentPackage_Rollback(p)
    \/ \E id \in 1..MaxSubmissions : deleteStudent(id)
    \/ \E p \in Procs, id \in 1..MaxSubmissions : StudentDetail(p, id)
    \/ \E p \in Procs : getStudentCertificates(p)
    \/ \E p \in Procs : getStudentHistory(p)

SpecRead == StoreInit /\ [][ReadNext]_vars

\* ------------------------------------------------- initDB: deduplication
MaxHistoric == 4       \* student rows that predate the constraint

\* The (name, path) pairs of the historic rows.
DedupKeys == { <<JoDoe, "pre">>, <<JoDoe, "inf">> }

\* db-index.js:75  SELECT name, path FROM students GROUP BY name, path HAVING COUNT(*) > 1
DuplicateGroups(tbl) ==
    {<<s.name, s.path>> : s \in {r \in tbl : \E o \in tbl :
                                    o.name = r.name /\ o.path = r.path /\ o.id # r.id}}

KeepId_HighestId(tbl, name, path) ==
    LET group == {r \in tbl : r.name = name /\ r.path = path}
        first == CHOOSE k \in group : \A r \in group : k.id >= r.id
    IN  first.id

\* db-index.js:77-79  SELECT id INTO keep_id ... ORDER BY updated_at DESC, id DESC LIMIT 1
KeepId(tbl, name, path) ==
    LET group == {r \in tbl : r.name = name /\ r.path = path}
        first == CHOOSE k \in group : \A r \in group :
                    \/ k.updated_at > r.updated_at
                    \/ (k.updated_at = r.updated_at /\ k.id >= r.id)
    IN  first.id

\* db-index.js:83,87  SELECT id FROM students WHERE name = dup.name AND path = dup.path
\*                    AND id <> keep_id
LoserIds(tbl, name, path) ==
    {r.id : r \in {o \in tbl : o.name = name /\ o.path = path
                                /\ o.id # KeepId(tbl, name, path)}}

Reparent_Skipped(tbl, losers, keep_id) == tbl
\* db-index.js:81-88  UPDATE ... SET student_id = keep_id WHERE student_id IN (losers)
Reparent(tbl, losers, keep_id) ==
    {[c EXCEPT !.student_id = IF @ \in losers THEN keep_id ELSE @] : c \in tbl}

\* db-index.js:74-90  one turn of the loop over the duplicate groups: pick the
\* survivor, re-parent certificates and packages, DELETE the others (ON DELETE
\* CASCADE takes the rows that still reference a deleted student)
initDB_Deduplicate(name, path) ==
    /\ ~students_name_path_unique
    /\ <<name, path>> \in DuplicateGroups(students)
    /\ LET keep_id == KeepId(students, name, path)
           losers == LoserIds(students, name, path)
       IN  /\ students' = {r \in students : r.id \notin losers}
           /\ certificates' =
                 {c \in Reparent(certificates, losers, keep_id) : c.student_id \notin losers}
           /\ generated_packages' =
                 {g \in Reparent(generated_packages, losers, keep_id) :
                     g.student_id \notin losers}
    /\ UNCHANGED <<now, pc, loc, seq, students_name_path_unique>>
    /\ UNCHANGED authVars

\* db-index.js:91  ALTER TABLE students ADD CONSTRAINT students_name_path_unique
initDB_AddConstraint ==
    /\ ~students_name_path_unique
    /\ DuplicateGroups(students) = {}
    /\ students_name_path_unique' = TRUE
    /\ UNCHANGED <<now, students, certificates, generated_packages, pc, loc, seq>>
    /\ UNCHANGED authVars

\* db-index.js:10-52  CREATE TABLE IF NOT EXISTS: a table that exists keeps its rows
CreateTableIfNotExists_Fresh(tbl) == {}

CreateTableIfNotExists(tbl) == tbl

\* server.js:211-217  the process has started and has answered no request yet
Started == Outcome("start", "ready", ErrorResponse(0, ""))

\* server.js:211-217, db-index.js:8-97  a later start of the process: initDB() runs
\* again, the tables exist, and the DO block finds students_name_path_unique
\* in pg_constraint (71-73) and skips its body
initDB_Restart ==
    /\ students_name_path_unique
    /\ students' = CreateTableIfNotExists(students)
    /\ certificates' = CreateTableIfNotExists(certificates)
    /\ generated_packages' = CreateTableIfNotExists(generated_packages)
    /\ pc' = [p \in Procs |-> "idle"]
    /\ loc' = [p \in Procs |-> Started]
    /\ UNCHANGED <<now, seq, students_name_path_unique>>
    /\ UNCHANGED authVars

\* db-index.js:205-209  the filename of a package written for student row i (the
\* client derives it from the submission; here it names the row it was written for)
OwnerFilename(i) == <<Digits[i]>>

\* A database written before the constraint existed: MaxHistoric student rows over
\* the pairs of DedupKeys, updated at one of two times, some with a certificate,
\* and one package.
DedupInit ==
    /\ now = TickMs
    /\ \E key \in [1..MaxHistoric -> DedupKeys], upd \in [1..MaxHistoric -> {0, TickMs}] :
          students = {StudentRow(i, key[i][1], NullStr, NullStr, key[i][2], "Label",
                                 1, 0, upd[i]) : i \in 1..MaxHistoric}
    /\ \E owners \in SUBSET (1..MaxHistoric) :
          certificates = {CertificateRow(i, i, CourseCPR) : i \in owners}
    /\ \E owner \in 1..MaxHistoric :
          generated_packages =
             {PackageRow(1, owner, OwnerFilename(owner), "pre", NullStr, NoBytes)}
    /\ seq = [students |-> MaxHistoric, certificates |-> MaxHistoric,
              generated_packages |-> 1]
    /\ students_name_path_unique = FALSE
    /\ magic_tokens = <<>>
    /\ nextToken = 1
    /\ pc = [p \in Procs |-> "idle"]
    /\ loc = [p \in Procs |-> NoOutcome]
    /\ okCount = [t \in TokenStrings |-> 0]
    /\ prior = [t \in TokenStrings |-> {}]

DedupNext ==
    \/ \E key \in DedupKeys : initDB_Deduplicate(key[1], key[2])
    \/ initDB_AddConstraint
    \/ initDB_Restart
    \/ /\ students_name_path_unique
       /\ \E id \in 1..MaxHistoric : deleteStudent(id)

SpecDedup == DedupInit /\ [][DedupNext]_vars

\* ------------------------------------------- findStudentsByEmail alone
\* db-index.js:306  ORDER BY s.path ASC: the rows in the order the query returns
\* them (rows of equal path come in either order)
OrderByPath(rows) ==
    {f \in [1..Cardinality(rows) -> rows] :
        \A i, j \in 1..Cardinality(rows) :
            i < j => (f[i] # f[j] /\ PathRank(f[i].path) <= PathRank(f[j].path))}

\* Rows the students table may hold: one email under both curricula, the same
\* email in other letter case under another name, a longer email that begins with
\* it, a row without email, and another email.
CandidateStudents ==
    { StudentRow(1, JoDoe, <<"a", "@", "X">>, NullStr, "pre", "Preschool", 1, 0, 0),
      StudentRow(2, JoDoe, <<"a", "@", "X">>, NullStr, "inf", "Infant", 1, 0, 0),
      StudentRow(3, <<"A", "l">>, <<"A", "@", "x">>, NullStr, "pre", "Preschool", 1, 0, 0),
      StudentRow(4, <<"z">>, NullStr, NullStr, "pre", "Preschool", 1, 0, 0),
      StudentRow(5, <<"A", "l">>, <<"a", "@", "x", "x">>, NullStr, "inf", "Infant", 1, 0, 0),
      StudentRow(6, <<"z">>, <<"b", "@", "x">>, NullStr, "inf", "Infant", 1, 0, 0) }

\* The emails a caller looks up.
QueryEmails ==
    { <<"a", "@", "x">>, <<"A", "@", "X">>, <<"@", "x">>, <<"b", "@", "X">>,
      <<"c", "@", "x">> }

\* db-index.js:296-310  one call of findStudentsByEmail; the slot keeps what it returned
findStudentsByEmail_Query(p, email) ==
    /\ pc[p] = "idle"
    /\ \E rows \in OrderByPath(findStudentsByEmail(students, email)) :
          loc' = [loc EXCEPT ![p] = [op |-> "find", email |-> email, rows |-> rows]]
    /\ UNCHANGED <<now, students, pc>>
    /\ UNCHANGED storeVars
    /\ UNCHANGED authVars

FindInit ==
    /\ now = 0
    /\ students \in SUBSET CandidateStudents
    /\ certificates = {}
    /\ generated_packages = {}
    /\ seq = [students |-> 6, certificates |-> 0, generated_packages |-> 0]
    /\ students_name_path_unique = TRUE
    /\ magic_tokens = <<>>
    /\ nextToken = 1
    /\ pc = [p \in Procs |-> "idle"]
    /\ loc = [p \in Procs |-> NoOutcome]
    /\ okCount = [t \in TokenStrings |-> 0]
    /\ prior = [t \in TokenStrings |-> {}]

FindNext == \E p \in Procs, email \in QueryEmails : findStudentsByEmail_Query(p, email)

SpecFind == FindInit /\ [][FindNext]_vars

\* --------------------------------- the portal while students are deleted
\* Issuance and verification on a stopped clock, with the administrator's
\* DELETE /api/students/:id running in between.
RevokeNext ==
    \/ \E p \in Procs, form \in FormInputs : AuthRequest(p, form.name, form.email)
    \/ \E p \in Procs : createMagicToken_Invalidate(p)
    \/ \E p \in Procs : createMagicToken_Insert(p)
    \/ \E p \in Procs : sendMagicLink(p)
    \/ \E p \in Procs, token \in TokenStrings : verifyMagicToken_Select(p, token)
    \/ \E p \in Procs : verifyMagicToken_Update(p)
    \/ \E p \in Procs : VerifyRespond(p)
    \/ \E s \in EnrolledStudents : deleteStudent(s.id)

SpecRevoke == AuthInit /\ [][RevokeNext]_vars

\* ------------------------------------------------------------ claims
Idle(p, op) == pc[p] = "idle" /\ loc[p].op = op
StoredTokens == {magic_tokens[i].token : i \in DOMAIN magic_tokens}
RowOf(token) == CHOOSE i \in DOMAIN magic_tokens : magic_tokens[i].token = token

\* A token is valid when its row exists, is unused and has not expired.
TokenIsValid(token) ==
    \E i \in DOMAIN magic_tokens :
        /\ magic_tokens[i].token = token
        /\ magic_tokens[i].used = FALSE
        /\ now < magic_tokens[i].expires_at

\* C1: of the verification attempts made for one token, at most one gets the row
\* back from verifyMagicToken (returns success), in every interleaving.
C1_AtMostOneVerifySucceeds == \A t \in TokenStrings : okCount[t] <= 1

\* C2: a verification of a valid token that no earlier call consumed goes on to
\* return the row, and a verification that starts after a call on the same token
\* has returned success is answered with the generic 401, whatever the clock says.
C2_SecondVerifyFails ==
    [][\A p \in Procs, t \in TokenStrings :
          verifyMagicToken_Select(p, t) =>
             /\ okCount[t] > 0 => (pc'[p] = "idle" /\ loc'[p].resp = AuthFailure)
             /\ TokenIsValid(t) => pc'[p] = "vupdate"]_vars

\* One token, consumed once, then refused as used.
C2_Witness ==
    /\ Len(magic_tokens) = 1 /\ nextToken = 2
    /\ okCount[1] = 1
    /\ \E p \in Procs : Idle(p, "verify") /\ loc[p].path = "used"
    /\ \E p \in Procs : Idle(p, "verify") /\ loc[p].path = "ok"

\* Tokens whose issuance had completed when a later issuance for the same email
\* began, that later issuance having completed too.
Superseded == {t \in TokenStrings : \E u \in StoredTokens : t \in prior[u]}

\* C3: once a second token has been issued for an email after the first, the first
\* token fails verification in every state: verifyMagicToken's SELECT finds no row.
C3_SupersededNeverVerifies ==
    \A t \in Superseded : SelectValidToken(magic_tokens, t, now) = {}

\* The first token was never consumed, the second is still valid, and a
\* verification was refused as used: that of the superseded first token.
C3_Witness ==
    /\ Superseded = {1}
    /\ okCount[1] = 0 /\ okCount[2] = 0
    /\ TokenIsValid(2)
    /\ \E p \in Procs : Idle(p, "verify") /\ loc[p].path = "used"

\* Two issuances for one email ran concurrently: each ran its invalidating UPDATE
\* before the other's INSERT.
Raced(t, u) ==
    /\ t # u /\ t \in StoredTokens /\ u \in StoredTokens
    /\ magic_tokens[RowOf(t)].email = magic_tokens[RowOf(u)].email
    /\ t \notin prior[u] /\ u \notin prior[t]

\* C4: of the tokens that concurrent issuance requests for one email create, at
\* most one is ever verified successfully.
C4_OneOfRacingTokensVerifies ==
    \A t, u \in TokenStrings : Raced(t, u) => ~(okCount[t] > 0 /\ okCount[u] > 0)

\* C7: a request for an email that resolves to no student and a request whose name
\* matches no resolved record get the identical response.
C7_UnknownAndMismatchAlike ==
    \A p, q \in Procs :
        (Idle(p, "request") /\ loc[p].path = "unknown"
           /\ Idle(q, "request") /\ loc[q].path = "mismatch")
        => loc[p].resp = loc[q].resp

C7_Witness ==
    \E p, q \in Procs :
        /\ Idle(p, "request") /\ loc[p].path = "unknown"
        /\ Idle(q, "request") /\ loc[q].path = "mismatch"

\* C8: a request on the true-success path (gate passed; token storage or delivery
\* may fail) gets the same response as a request on a silent no-op path.
C8_SuccessAndNoOpAlike ==
    \A p, q \in Procs :
        (Idle(p, "request") /\ loc[p].path \in {"issued", "storefail", "sendfail"}
           /\ Idle(q, "request") /\ loc[q].path \in {"unknown", "mismatch"})
        => loc[p].resp = loc[q].resp

\* C9: a rejected token gets one and the same response, whether it does not
\* exist, is already used, or has expired.
C9_OneFailureOutcome ==
    \A p, q \in Procs :
        (Idle(p, "verify") /\ loc[p].path \in {"nonexistent", "used", "expired"}
           /\ Idle(q, "verify") /\ loc[q].path \in {"nonexistent", "used", "expired"})
        => (loc[p].resp = loc[q].resp /\ loc[p].resp = AuthFailure)

C9_Witness ==
    \E p, q \in Procs :
        /\ Idle(p, "verify") /\ loc[p].path = "expired"
        /\ Idle(q, "verify") /\ loc[q].path \in {"nonexistent", "used"}

\* C5: with the uniqueness constraint installed, the students table never holds
\* two rows of one (name, trainingPath), however submissions interleave.
C5_OneStudentPerKey ==
    students_name_path_unique =>
        \A s1, s2 \in students :
            (s1.name = s2.name /\ s1.path = s2.path) => s1 = s2

\* Two submissions for one pair were both accepted, with the same studentId and
\* different packageIds, and the table holds the one row.
C5_Witness ==
    /\ Cardinality(students) = 1
    /\ \E p, q \in Procs :
          /\ p # q
          /\ Idle(p, "save") /\ loc[p].path = "saved"
          /\ Idle(q, "save") /\ loc[q].path = "saved"
          /\ loc[p].resp.students = loc[q].resp.students
          /\ loc[p].resp.packageId # loc[q].resp.packageId

\* C6: a download whose package is owned by a student outside the set that
\* findStudentsByEmail returned for the request is denied without document bytes,
\* and bytes leave only for a package whose owner is in that set.
C6_DownloadOnlyOwned ==
    [][\A p \in Procs :
          /\ (/\ DownloadOwner(p)
              /\ \E g \in generated_packages :
                    g.id = loc[p].packageId /\ g.student_id \notin loc[p].studentIds)
             => (/\ pc'[p] = "idle"
                 /\ loc'[p].resp.status = 403
                 /\ loc'[p].resp.bytes = NoBytes)
          /\ (/\ pc[p] # "idle" /\ pc'[p] = "idle"
              /\ loc'[p].op = "download" /\ loc'[p].resp.bytes # NoBytes)
             => (/\ pc[p] = "dlfetch"
                 /\ \E g \in generated_packages :
                       /\ g.id = loc[p].packageId
                       /\ g.student_id \in loc[p].studentIds
                       /\ g.pdf_data = loc'[p].resp.bytes)]_vars

\* One download was refused for a package of another student, one was served.
C6_Witness ==
    \E p, q \in Procs :
        /\ Idle(p, "download") /\ loc[p].path = "notOwner"
        /\ Idle(q, "download") /\ loc[q].path = "released"

\* C10: a download is refused with one and the same response when the email
\* resolves to no student, when the package does not exist, and when the package
\* belongs to a student the email does not own.
C10_OneDenyOutcome ==
    \A p, q \in Procs :
        (Idle(p, "download") /\ loc[p].path \in {"unknownEmail", "noPackage", "notOwner"}
           /\ Idle(q, "download") /\ loc[q].path \in {"unknownEmail", "noPackage", "notOwner"})
        => loc[p].resp = loc[q].resp

C12_FetchPassesAccessGuard ==
    [][\A p \in Procs :
          (/\ loc'[p] # loc[p]
           /\ pc'[p] = "idle"
           /\ loc'[p].resp.bytes # NoBytes)
          => pc[p] = "dlfetch"]_vars

\* C13: the portal download releases document bytes for an email only if a token
\* issued for that email was verified successfully earlier in the run.
C13_DownloadNeedsVerifiedEmail ==
    [][\A p \in Procs :
          (DownloadFetch(p) /\ loc'[p].resp.bytes # NoBytes)
          => \E i \in DOMAIN magic_tokens :
                /\ magic_tokens[i].email = loc[p].email
                /\ okCount[magic_tokens[i].token] > 0]_vars

\* C14: a submission that commits for a (name, trainingPath) leaves exactly one
\* student row of that pair; when the pair had a row already (a resubmission), the
\* studentId it returns is that row's id; and it adds exactly one package row,
\* owned by that student, under a packageId no stored package carries.
C14_ResubmitSameStudentNewPackage ==
    [][\A p \in Procs :
          saveStudentPackage_Commit(p) =>
             LET data == loc[p].data
                 before == {s \in students : s.name = data.name /\ s.path = data.path}
                 after == {s \in students' : s.name = data.name /\ s.path = data.path}
                 added == generated_packages' \ generated_packages
             IN  /\ Cardinality(after) = 1
                 /\ \A s \in before \cup after : loc'[p].resp.students = {s.id}
                 /\ Cardinality(added) = 1
                 /\ generated_packages \subseteq generated_packages'
                 /\ \A g \in added :
                       /\ g.id = loc'[p].resp.packageId
                       /\ g.student_id \in loc'[p].resp.students
                       /\ \A h \in generated_packages : h.id # g.id]_vars

\* The identical payload was submitted twice: both submissions were answered with
\* the same studentId and different packageIds, one student row and two package
\* rows of the same file are stored.
C14_Witness ==
    /\ Cardinality(students) = 1
    /\ Cardinality(generated_packages) = 2
    /\ \A g, h \in generated_packages :
          g.filename = h.filename /\ g.pdf_data = h.pdf_data /\ g.student_id = h.student_id
    /\ \E p, q \in Procs :
          /\ p # q
          /\ Idle(p, "save") /\ loc[p].path = "saved"
          /\ Idle(q, "save") /\ loc[q].path = "saved"
          /\ loc[p].resp.students = loc[q].resp.students
          /\ loc[p].resp.packageId # loc[q].resp.packageId

\* The signature of stored certificate rows with each date as the store holds it:
\* the (course name, date, status) of every row, sorted.
StoredSignature(rows) ==
    LET list == SetToSeq(rows)
    IN  JoinBar(SortStrings([k \in 1..Len(list) |->
            list[k].course_name \o list[k].cert_date \o list[k].status]))

\* C15: a submission whose course list has the signature of the student's stored
\* certificate rows writes nothing to the certificate rows: the table, row
\* identifiers included, is the same before and after it commits.
C15_SameSignatureNoWrite ==
    [][\A p \in Procs :
          (/\ saveStudentPackage_Commit(p)
           /\ StoredSignature({c \in certificates : c.student_id = loc[p].studentId})
                 = IncomingKey(loc[p].data.courses))
          => certificates' = certificates]_vars

\* The certificate row `c` holds the data of the incoming course `course`.
RowHoldsCourse(c, course) ==
    /\ c.course_name = course.course
    /\ c.subject_area = course.area
    /\ c.cert_date = course.date
    /\ c.status = course.status
    /\ c.area_index = course.areaIndex

\* C16: when a submission commits, the student's certificate rows are exactly the
\* incoming list, one row per course with its name, area, date, status and
\* areaIndex; and when the list differs from the stored rows, no row of the prior
\* set remains.
C16_DifferentListReplacesAll ==
    [][\A p \in Procs :
          saveStudentPackage_Commit(p) =>
             LET id == loc[p].studentId
                 courses == loc[p].data.courses
                 old == {c \in certificates : c.student_id = id}
                 new == {c \in certificates' : c.student_id = id}
             IN  /\ Cardinality(new) = Len(courses)
                 /\ \A k \in 1..Len(courses) : \E c \in new : RowHoldsCourse(c, courses[k])
                 /\ \A c \in new : \E k \in 1..Len(courses) : RowHoldsCourse(c, courses[k])
                 /\ StoredSignature(old) # IncomingKey(courses)
                       => \A c \in new, o \in old : c.id # o.id]_vars

\* The rows `rows` are the complete list `courses`: one row per course.
CompleteSet(rows, courses) ==
    /\ Cardinality(rows) = Len(courses)
    /\ \A k \in 1..Len(courses) : \E c \in rows : RowHoldsCourse(c, courses[k])
    /\ \A c \in rows : \E k \in 1..Len(courses) : RowHoldsCourse(c, courses[k])

CommittedSubmissions(s) ==
    {d \in SubmitInputs : \E g \in generated_packages :
                             g.student_id = s.id /\ g.filename = d.filename}

\* C18: however submissions for one (name, trainingPath) interleave, the table holds
\* one student row of the pair, the student's certificate rows are the complete
\* course list of one of the submissions that committed (no duplicated and no
\* mixed rows), and every submission that was answered has its own package row.
C18_ConcurrentSubmissionsConverge ==
    /\ \A s1, s2 \in students : (s1.name = s2.name /\ s1.path = s2.path) => s1 = s2
    /\ \A s \in students :
          \E d \in CommittedSubmissions(s) :
             /\ d.name = s.name /\ d.path = s.path
             /\ CompleteSet({c \in certificates : c.student_id = s.id}, d.courses)
    /\ \A p \in Procs :
          (Idle(p, "save") /\ loc[p].path = "saved"
             /\ \E s \in students : s.id \in loc[p].resp.students)
          => /\ Cardinality({g \in generated_packages :
                                g.id = loc[p].resp.packageId}) = 1
             /\ \A g \in generated_packages :
                   g.id = loc[p].resp.packageId => g.student_id \in loc[p].resp.students
             /\ \A q \in Procs \ {p} :
                   (Idle(q, "save") /\ loc[q].path = "saved")
                   => loc[q].resp.packageId # loc[p].resp.packageId

\* C19: a generation request that fails at any statement leaves the students,
\* certificates and generated_packages tables as they were and is answered with
\* an error; and no statement of a request before its COMMIT changes a table, so
\* "as they were" is as they were before the request.
C19_FailureLeavesNoTrace ==
    [][\A p \in Procs :
          /\ saveStudentPackage_Rollback(p) =>
                /\ students' = students
                /\ certificates' = certificates
                /\ generated_packages' = generated_packages
                /\ loc'[p].resp.status = 500 /\ ~loc'[p].resp.ok
                /\ loc'[p].resp.error # ""
          /\ (/\ InTransaction(p) /\ pc[p] # "commit"
              /\ (pc'[p] # pc[p] \/ loc'[p] # loc[p]))
             => /\ students' = students
                /\ certificates' = certificates
                /\ generated_packages' = generated_packages]_vars

\* The second of two submissions for a student had deleted the stored certificate,
\* inserted its two and its package, and then failed: certificate 1 and package 1
\* of the first submission are what the tables hold.
C19_Witness ==
    /\ \A q \in Procs : pc[q] = "idle"
    /\ \E p \in Procs : Idle(p, "save") /\ loc[p].path = "rolledback"
    /\ Cardinality(students) = 1
    /\ {c.id : c \in certificates} = {1}
    /\ {g.id : g \in generated_packages} = {1}
    /\ seq.certificates = 3
    /\ seq.generated_packages = 2

\* C20: a turn of the migration on a group of N > 1 student rows of one (name,
\* trainingPath) leaves exactly one row of the group; every certificate and package
\* row that referenced a row of the group is still stored, unchanged but for its
\* reference, which is the survivor; no other row is touched; and the constraint
\* is installed only on a table without duplicates.
C20_DedupConverges ==
    [][/\ \A key \in DedupKeys :
             initDB_Deduplicate(key[1], key[2]) =>
                LET group == {r \in students : r.name = key[1] /\ r.path = key[2]}
                    ids == {r.id : r \in group}
                    left == {r \in students' : r.name = key[1] /\ r.path = key[2]}
                IN  /\ Cardinality(group) > 1
                    /\ Cardinality(left) = 1
                    /\ left \subseteq group
                    /\ students \ group = students' \ left
                    /\ \A r \in left :
                          /\ certificates' =
                                {[c EXCEPT !.student_id = IF @ \in ids THEN r.id ELSE @] :
                                    c \in certificates}
                          /\ generated_packages' =
                                {[g EXCEPT !.student_id = IF @ \in ids THEN r.id ELSE @] :
                                    g \in generated_packages}
                    /\ Cardinality(certificates') = Cardinality(certificates)
                    /\ Cardinality(generated_packages') = Cardinality(generated_packages)
       /\ students_name_path_unique' => DuplicateGroups(students') = {}]_vars

\* The migration has run on a database with a group of three: the constraint is
\* installed, and the survivor holds the three certificates and the package that
\* the rows of its group held.
C20_Witness ==
    /\ students_name_path_unique
    /\ Cardinality(students) = 2
    /\ \E r \in students :
          /\ Cardinality({c \in certificates : c.student_id = r.id}) = 3
          /\ \A g \in generated_packages : g.student_id = r.id

\* C21: deduplicate() is safe on every startup: once the uniqueness constraint
\* exists, a further run of initDB changes no Student, Certificate or Package row
\* and leaves the constraint in place.
C21_RerunChangesNothing ==
    [][initDB_Restart =>
          /\ students_name_path_unique
          /\ students' = students
          /\ certificates' = certificates
          /\ generated_packages' = generated_packages
          /\ students_name_path_unique']_vars

\* The process has been started again after the migration merged a group: the
\* constraint exists and the store holds students, certificates and a package.
C21_Witness ==
    /\ students_name_path_unique
    /\ loc[1] = Started
    /\ Cardinality(students) = 2
    /\ certificates # {}
    /\ generated_packages # {}

\* C22 (as stated): a Package row is immutable and the ledger is append-only: no
\* step changes any field of an existing Package row, and a row disappears only
\* together with its owning Student.
C22_PackageNeverChanges ==
    [][\A g \in generated_packages :
          \/ g \in generated_packages'
          \/ /\ \A h \in generated_packages' : h.id # g.id
             /\ \E s \in students : s.id = g.student_id
             /\ \A s \in students' : s.id # g.student_id]_vars

\* C22 (amended): the only field of a Package row that ever changes is student_id,
\* and only in the migration, which moves the row from a deleted duplicate to the
\* surviving Student of the same (name, path); every other field is fixed, and a
\* row disappears only through DELETE of its owning Student by deleteStudent.
C22_PackageFixedButForReparenting ==
    [][\A g \in generated_packages :
          LET after == {h \in generated_packages' : h.id = g.id}
          IN  \/ after = {g}
              \/ /\ \E key \in DedupKeys : initDB_Deduplicate(key[1], key[2])
                 /\ \E h \in after :
                       /\ after = {h}
                       /\ h = [g EXCEPT !.student_id = h.student_id]
                       /\ \A s \in students' : s.id # g.student_id
                       /\ \E old \in students, new \in students' :
                             /\ old.id = g.student_id
                             /\ new.id = h.student_id
                             /\ new.name = old.name
                             /\ new.path = old.path
              \/ /\ after = {}
                 /\ deleteStudent(g.student_id)]_vars

\* The migration has moved the package away from the row it was written for, and
\* the constraint is installed; the package still carries its filename.
C22_Witness ==
    /\ students_name_path_unique
    /\ \E g \in generated_packages :
          /\ g.filename # OwnerFilename(g.student_id)
          /\ \E s \in students : s.id = g.student_id

\* An issuance for the email is in progress: a request handler is between the start
\* of createMagicToken and its answer.
IssuanceInProgress(email) ==
    \E p \in Procs : pc[p] \in {"invalidate", "tokeninsert", "send"} /\ loc[p].email = email

\* C23: in every state in which no issuance for an email is in progress, at most
\* one unused, unexpired token exists for that email.
C23_AtMostOneValidToken ==
    \A i, j \in DOMAIN magic_tokens :
        (/\ magic_tokens[i].email = magic_tokens[j].email
         /\ ~IssuanceInProgress(magic_tokens[i].email)
         /\ TokenIsValid(magic_tokens[i].token)
         /\ TokenIsValid(magic_tokens[j].token))
        => i = j

\* C24: a request-access call goes on to createMagicToken (the invalidating UPDATE,
\* the INSERT) and to the delivery collaborator only if its email resolves to a
\* Student and its name loosely matches a resolved record (ignoring letter case,
\* the first token of one name is contained in the other name, in either
\* direction); on the unknown-email and name-mismatch paths the call ends with the
\* token table as it was and without calling the collaborator; and only a call
\* that passed the gate is ever inside createMagicToken or sendMagicLink.
C24_GateBeforeIssuance ==
    [][LET LooselyMatches(stored, supplied) ==
               LET a == ToLowerCase(stored)
                   b == Trim(ToLowerCase(supplied))
               IN  Includes(b, FirstToken(a)) \/ Includes(a, FirstToken(b))
           GatePasses(f) ==
               \E s \in findStudentsByEmail(students, Trim(ToLowerCase(f.email))) :
                   LooselyMatches(s.name, f.name)
       IN  /\ \A p \in Procs, f \in FormInputs :
                 (/\ pc[p] = "idle"
                  /\ loc'[p] # loc[p]
                  /\ pc'[p] = "invalidate" \/ (pc'[p] = "idle" /\ loc'[p].op = "request")
                  /\ AuthRequest(p, f.name, f.email)) =>
                    /\ pc'[p] # "idle" => GatePasses(f)
                    /\ (pc'[p] = "idle" /\ loc'[p].path \in {"unknown", "mismatch"}) =>
                           /\ magic_tokens' = magic_tokens
                           /\ nextToken' = nextToken
           /\ \A p \in Procs :
                 (createMagicToken_Invalidate(p) \/ createMagicToken_Insert(p)
                     \/ sendMagicLink(p) \/ sendMagicLink_Fail(p)) =>
                    \E f \in FormInputs :
                        /\ GatePasses(f)
                        /\ Trim(ToLowerCase(f.email)) = loc[p].email]_vars

\* One call was stopped at the name gate and one passed it: the only token in the
\* table is the one of the call that passed.
C24_Witness ==
    /\ Idle(1, "request") /\ loc[1].path = "mismatch"
    /\ Idle(2, "request") /\ loc[2].path = "issued"
    /\ Len(magic_tokens) = 1
    /\ nextToken = 2

\* C25: a token that has been used (by verification or by supersession) or has
\* expired is never valid again: no step removes a token row, changes its token,
\* email or expires_at, or sets used back to FALSE; the clock does not go back; so
\* the row is selected by no later lookup, and a verification that looks the
\* token up in such a state is answered with the generic 401.
C25_SpentTokenStaysSpent ==
    [][/\ now' >= now
       /\ \A i \in DOMAIN magic_tokens :
             /\ i \in DOMAIN magic_tokens'
             /\ magic_tokens'[i].token = magic_tokens[i].token
             /\ magic_tokens'[i].email = magic_tokens[i].email
             /\ magic_tokens'[i].expires_at = magic_tokens[i].expires_at
             /\ magic_tokens[i].used => magic_tokens'[i].used
             /\ (magic_tokens[i].used \/ magic_tokens[i].expires_at <= now) =>
                    /\ SelectValidToken(magic_tokens', magic_tokens[i].token, now') = {}
                    /\ \A p \in Procs :
                          verifyMagicToken_Select(p, magic_tokens[i].token) =>
                             (pc'[p] = "idle" /\ loc'[p].resp = AuthFailure)]_vars

\* One token was verified and then refused as used, another expired unused and
\* was refused as expired.
C25_Witness ==
    /\ \E i \in DOMAIN magic_tokens :
          /\ magic_tokens[i].used
          /\ okCount[magic_tokens[i].token] = 1
    /\ \E i \in DOMAIN magic_tokens :
          /\ ~magic_tokens[i].used
          /\ magic_tokens[i].expires_at <= now
    /\ \E p \in Procs : Idle(p, "verify") /\ loc[p].path = "used"
    /\ \E p \in Procs : Idle(p, "verify") /\ loc[p].path = "expired"

\* C26: ownership is derived from the rows the store holds when the download is
\* made: a download goes past the email lookup only with the identifiers of the
\* Students whose email is, at that time, the given one, and past the owner check
\* only for a package whose row is then owned by one of them; so an email that no
\* Student carries any more (it was replaced by a later submission, or the Student
\* was deleted) is refused without document bytes.
C26_OwnershipFromCurrentStore ==
    [][\A p \in Procs :
          /\ (pc[p] = "idle" /\ pc'[p] = "dlowner") =>
                LET holders == {s \in students :
                                   /\ s.email # NullStr
                                   /\ ToLowerCase(s.email) = loc'[p].email}
                IN  /\ holders # {}
                    /\ loc'[p].studentIds = {s.id : s \in holders}
                    /\ \A e \in DownloadEmails :
                          DownloadFind(p, e, loc'[p].packageId) =>
                             loc'[p].email = Trim(ToLowerCase(e))
          /\ (/\ pc[p] = "idle" /\ pc'[p] = "idle" /\ loc'[p] # loc[p]
              /\ loc'[p].op = "download") =>
                /\ loc'[p].resp.status \in {401, 403}
                /\ loc'[p].resp.bytes = NoBytes
          /\ DownloadOwner(p) =>
                IF \E g \in generated_packages, s \in students :
                      /\ g.id = loc[p].packageId
                      /\ g.student_id = s.id
                      /\ s.id \in loc[p].studentIds
                THEN pc'[p] = "dlfetch"
                ELSE /\ pc'[p] = "idle"
                     /\ loc'[p].resp.status \in {403, 404}
                     /\ loc'[p].resp.bytes = NoBytes]_vars

\* A later submission (the one that wrote package "3") has replaced the email the
\* only Student was enrolled with when package "1" was written: a download under
\* the email the Student carries now was served, and a download under an email
\* no Student carries was refused.
C26_Witness ==
    /\ Cardinality(generated_packages) = 2
    /\ \E s \in students :
          /\ students = {s}
          /\ s.email = <<"b", "@", "x">>
          /\ \A g \in generated_packages : g.student_id = s.id
          /\ \E g, h \in generated_packages :
                g.filename = <<"1">> /\ h.filename = <<"3">>
    /\ Idle(1, "download") /\ loc[1].path = "unknownEmail"
    /\ Idle(2, "download") /\ loc[2].path = "released"

\* C27: a DELETE of students, single or bulk, takes the Certificate and Package
\* rows of the deleted Students with it, so in every reachable state every
\* Certificate row and every Package row references a Student that exists.
C27_NoOrphanRows ==
    /\ \A c \in certificates : \E s \in students : s.id = c.student_id
    /\ \A g \in generated_packages : \E s \in students : s.id = g.student_id

\* Two submissions created two Students, each with a package, and one of them has
\* been deleted since: one Student is left, with its certificate and its package.
C27_Witness ==
    /\ Idle(1, "save") /\ loc[1].path = "saved"
    /\ Idle(2, "save") /\ loc[2].path = "saved"
    /\ loc[1].resp.students # loc[2].resp.students
    /\ Cardinality(students) = 1
    /\ Cardinality(generated_packages) = 1
    /\ certificates # {}

\* C28: the upsert of a submission for a (name, trainingPath) that has a row keeps
\* the stored email when the submitted one is absent (null or empty) and takes the
\* submitted one otherwise, does the same for center, sets course_count to the
\* number of submitted courses and updated_at to the time of the statement, and
\* leaves id, name, path, path_label and created_at as stored; the commit puts
\* exactly that row in the place of the stored one.
C28_ResolveMergesExistingRow ==
    [][\A p \in Procs :
          /\ saveStudentPackage_Upsert(p) =>
                LET data == loc[p].data
                    new == loc'[p].student
                    absent(v) == v = EmptyStr \/ v = NullStr
                IN  \A old \in students :
                       (old.name = data.name /\ old.path = data.path) =>
                          /\ new.email = IF absent(data.email) THEN old.email ELSE data.email
                          /\ new.center = IF absent(data.center) THEN old.center
                                          ELSE data.center
                          /\ new.course_count = Len(data.courses)
                          /\ new.updated_at = now
                          /\ new.id = old.id
                          /\ new.name = old.name
                          /\ new.path = old.path
                          /\ new.path_label = old.path_label
                          /\ new.created_at = old.created_at
                          /\ loc'[p].studentId = old.id
          /\ saveStudentPackage_Commit(p) =>
                /\ loc[p].student \in students'
                /\ \A s \in students' : s.id = loc[p].student.id => s = loc[p].student
                /\ \A s \in students : s.id # loc[p].student.id => s \in students']_vars

\* The Student enrolled by the first payload (email a@X, center N, label Preschool)
\* was resubmitted a tick later by the third (email b@x, no center, label PreK):
\* the row carries the new email, the old center and label, and a later updated_at.
C28_Witness ==
    /\ Idle(1, "save") /\ loc[1].path = "saved"
    /\ Idle(2, "save") /\ loc[2].path = "saved"
    /\ \E s \in students :
          /\ students = {s}
          /\ s.email = <<"b", "@", "x">>
          /\ s.center = <<"N">>
          /\ s.path_label = "Preschool"
          /\ s.course_count = 1
          /\ s.created_at < s.updated_at

\* C29: in a turn of the migration the row that is left of the duplicate group is
\* the one with the greatest updated_at, and among rows of equal greatest
\* updated_at the one with the highest id; it is left as it was; and since the
\* dependents are re-parented before the DELETE, no Certificate or Package row is
\* removed by the cascade: every identifier stored before is stored after.
C29_SurvivorIsLatestThenHighest ==
    [][\A key \in DedupKeys :
          initDB_Deduplicate(key[1], key[2]) =>
             LET group == {r \in students : r.name = key[1] /\ r.path = key[2]}
                 left == {r \in students' : r.name = key[1] /\ r.path = key[2]}
             IN  /\ \A k \in left :
                       /\ k \in group
                       /\ \A r \in group :
                             /\ k.updated_at >= r.updated_at
                             /\ k.updated_at = r.updated_at => k.id >= r.id
                 /\ left # {}
                 /\ {c.id : c \in certificates'} = {c.id : c \in certificates}
                 /\ {g.id : g \in generated_packages'} = {g.id : g \in generated_packages}
                 /\ \A c \in certificates' : \E s \in students' : s.id = c.student_id
                 /\ \A g \in generated_packages' :
                       \E s \in students' : s.id = g.student_id]_vars

\* All four rows were of one group and the one with the lowest id had the latest
\* updated_at: it is the row that is left, and it holds the certificates of the
\* deleted rows and the package.
C29_Witness ==
    /\ \E s \in students : students = {s} /\ s.id = 1 /\ s.updated_at = TickMs
    /\ {c.id : c \in certificates} = {2, 3, 4}
    /\ \A c \in certificates : c.student_id = 1
    /\ \E g \in generated_packages : g.student_id = 1 /\ g.filename = OwnerFilename(4)

\* C30: findStudentsByEmail(email) returns exactly the Students whose stored email
\* is the given email but for letter case (same length, the same letters position
\* by position; a longer or shorter stored email and a NULL email never match),
\* each once, several when one email is enrolled under more than one training
\* path, and in ascending order of training path ('inf' before 'pre').
C30_FindByEmailExactIgnoringCase ==
    \A p \in Procs :
        Idle(p, "find") =>
           LET rows == loc[p].rows
               email == loc[p].email
               sameButCase(a, b) ==
                   /\ Len(a) = Len(b)
                   /\ \A i \in 1..Len(a) : LowerChar(a[i]) = LowerChar(b[i])
           IN  /\ {rows[i] : i \in 1..Len(rows)} =
                     {s \in students : s.email # NullStr /\ sameButCase(s.email, email)}
               /\ \A i, j \in 1..Len(rows) : i < j => rows[i].id # rows[j].id
               /\ \A i, j \in 1..Len(rows) :
                     (i < j /\ rows[i].path # rows[j].path) =>
                        (rows[i].path = "inf" /\ rows[j].path = "pre")

\* With all candidate rows stored, a lookup of A@X returned the three rows that
\* carry the email in some letter case, the infant row first, and a lookup of a
\* part of the email returned nothing.
C30_Witness ==
    /\ students = CandidateStudents
    /\ Idle(1, "find") /\ loc[1].email = <<"A", "@", "X">>
    /\ Len(loc[1].rows) = 3
    /\ loc[1].rows[1].id = 2
    /\ {loc[1].rows[2].id, loc[1].rows[3].id} = {1, 3}
    /\ Idle(2, "find") /\ loc[2].email = <<"@", "x">>
    /\ loc[2].rows = <<>>

\* C31: the replace decision of reconcile depends only on the multiset of (course
\* name, date, status) triples: the comparison of a submission decides to replace
\* exactly when some triple occurs a different number of times among the stored
\* Certificate rows of the Student than in the incoming list.
C31_ReplaceIffTriplesDiffer ==
    [][\A p \in Procs :
          saveStudentPackage_Reconcile(p) =>
             LET courses == loc[p].data.courses
                 stored == {c \in certificates : c.student_id = loc[p].studentId}
                 triples == {<<c.course_name, c.cert_date, c.status>> : c \in stored}
                               \cup {<<courses[k].course, courses[k].date, courses[k].status>> :
                                         k \in 1..Len(courses)}
                 inStore(t) == Cardinality({c \in stored :
                                  <<c.course_name, c.cert_date, c.status>> = t})
                 inList(t) == Cardinality({k \in 1..Len(courses) :
                                  <<courses[k].course, courses[k].date, courses[k].status>> = t})
             IN  loc'[p].replace <=> (\E t \in triples : inStore(t) # inList(t))]_vars

\* C32: immediately after every committed submission, the course_count of the
\* Student equals the number of Certificate rows stored for that Student.
C32_CourseCountIsRowCount ==
    [][\A p \in Procs :
          saveStudentPackage_Commit(p) =>
             \A s \in students' :
                s.id = loc[p].studentId =>
                   s.course_count = Cardinality({c \in certificates' : c.student_id = s.id})]_vars

\* C33: a verification request that has marked its token used answers with the
\* success output: status 200, ok, the email of the token and the identifiers of
\* the Students that carry it.
C33_ConsumedMeansSuccess ==
    [][\A p \in Procs :
          VerifyRespond(p) =>
             /\ loc'[p].resp.status = 200
             /\ loc'[p].resp.ok
             /\ loc'[p].resp.email = loc[p].row.email
             /\ loc'[p].resp.students # {}]_vars

====
